---------------------------- MODULE Spec2Model ----------------------------
(***************************************************************************)
(* Model of soundprojector.ino: the 40 kHz modulation callback modulate(), *)
(* the polled trigger debouncer checkTrigger(), startPlayback(), and the   *)
(* main loop that runs them.                                               *)
(*                                                                         *)
(* The callback is a Ticker callback; it preempts the main loop and runs   *)
(* to completion, so it is one atomic action that may fire between any two *)
(* steps of the main loop.  The main loop is cut into steps at every       *)
(* access to state shared with the callback (isPlaying, audioFile, the LED *)
(* and the PWM duty register); its position is pc.                         *)
(***************************************************************************)
EXTENDS Integers, Sequences, FiniteSets, TLC

(***************************************************************************)
(* Program constants                                                       *)
(***************************************************************************)
debounceDelay == 50
sineTableSize == 100
testFreq == 1000
carrierRate == 40000
dcLevel == 127
adcDivisor == 4

(***************************************************************************)
(* Bounds of the model                                                     *)
(***************************************************************************)
MaxLen == 2          \* longest audio file
MaxClock == 210      \* milliseconds of polling, trigger specifications
MaxPlayClock == 300  \* milliseconds of polling, playback specifications
MaxSessions == 2     \* the session counter saturates here
MaxFaults == 1       \* failed reads per session, fault specification
MaxLiveClock == 120  \* milliseconds of polling, fair-timer specification
WrapLead == 100      \* milliseconds from the first poll to the wrap of millis()

(***************************************************************************)
(* Input sets                                                              *)
(***************************************************************************)
Bytes == {0, 200}
AdcInputs == {0, 2048, 4095}
PollGaps == {10, 60}     \* milliseconds from one poll to the next: loop() delays 10
SlowGaps == {60}
MaxGap == CHOOSE g \in PollGaps : \A h \in PollGaps : h <= g

Files == UNION {[1..k -> Bytes] : k \in 0..MaxLen}

Configs == [dc : BOOLEAN, sine : BOOLEAN, live : BOOLEAN, led : BOOLEAN]
\* every choice of the fallback source
SourceConfigs == {c \in Configs : ~c.led}
\* builds without a free-running tone
PlainConfigs == {c \in Configs : ~c.sine /\ ~c.live}
PlaybackOnly == [dc |-> FALSE, sine |-> FALSE, live |-> FALSE, led |-> FALSE]
LedBuild == [dc |-> FALSE, sine |-> FALSE, live |-> FALSE, led |-> TRUE]
ExampleFile == <<200, 0>>

VARIABLES
  cfg,              \* build flags TEST_MODE_DC, TEST_MODE_SINE, ENABLE_LIVE_INPUT, ENABLE_STATUS_LED
  spiffs,           \* the storage: [mounted, exists, data] (data = the bytes of /audio.raw)
  pc,               \* position of the main loop
  timerOn,          \* modulator.attach_ms has been called
  pin,              \* raw trigger level, TRUE = asserted (GPIO18 pulled to ground)
  reading,          \* checkTrigger's local: the level sampled at this poll
  lastTriggerState,
  triggerState,
  lastTriggerTime,
  now,              \* millis(), unsigned 32 bit
  clock,            \* milliseconds elapsed since the first poll (not wrapped)
  isPlaying,
  audioFile,        \* the File handle: [open, pos]
  sinePhase,
  pwm,              \* last value written to the PWM duty register
  led,              \* last level written to the status LED
  out,              \* values written to the PWM register since the session started
  nFinished,        \* "Playback finished" messages printed since the session started
  lastStart,        \* outcome of the last startPlayback: none, ok, notfound, openfailed
  sessions,         \* sessions started so far (saturating at MaxSessions)
  swallowed,        \* a rising edge was confirmed during a session and the level is still high
  burst             \* the raw toggles since the debouncer last agreed with the line:
                    \* base = the level before them, start = the time of the first,
                    \* narrow = all of them within debounceDelay of the first,
                    \* toggles = how many (1, or 2 for more), flips = changes of
                    \* triggerState since the first (saturating at 2)

vars == <<cfg, spiffs, pc, timerOn, pin, reading, lastTriggerState, triggerState,
          lastTriggerTime, now, clock, isPlaying, audioFile, sinePhase, pwm, led,
          out, nFinished, lastStart, sessions, swallowed, burst>>

triggerVars == <<pin, reading, lastTriggerState, triggerState, lastTriggerTime>>
timeVars == <<now, clock>>
playVars == <<isPlaying, audioFile>>
outVars == <<sinePhase, pwm, out, nFinished>>
constVars == <<cfg, spiffs>>
ghostVars == <<lastStart, sessions, swallowed, burst>>

(***************************************************************************)
(* 127 + (int)(127.0 * sin(angle)) for angle = phase * 2 * PI / 100, as    *)
(* the C code computes it (truncation toward zero).                        *)
(***************************************************************************)
SineTable ==
  <<127, 134, 142, 150, 158, 166, 173, 181, 188, 195,
    201, 207, 213, 219, 224, 229, 234, 238, 241, 245,
    247, 250, 251, 252, 253, 253, 253, 252, 251, 250,
    247, 245, 241, 238, 234, 229, 224, 219, 213, 207,
    201, 195, 188, 181, 173, 166, 158, 150, 142, 134,
    127, 120, 112, 104,  96,  88,  81,  73,  66,  59,
     53,  47,  41,  35,  30,  25,  20,  16,  13,   9,
      7,   4,   3,   2,   1,   1,   1,   2,   3,   4,
      7,   9,  13,  16,  20,  25,  30,  35,  41,  47,
     53,  59,  66,  73,  81,  88,  96, 104, 112, 120>>

SineSample(phase) == SineTable[phase + 1]

\* (int)phaseIncrement, phaseIncrement = (testFreq * sineTableSize) / 40000.0 = 2.5
phaseStep == (testFreq * sineTableSize) \div carrierRate

\* faulty variant: the phase is not wrapped
NextPhaseNoWrap(phase) == phase + phaseStep

\* lines 264-267
NextPhase(phase) ==
  LET p == phase + phaseStep
  IN  IF p >= sineTableSize THEN p - sineTableSize ELSE p

\* the phase after n more invocations of the tone branch (lines 264-267)
RECURSIVE Advance(_, _)
Advance(phase, n) == IF n = 0 THEN phase ELSE Advance(NextPhase(phase), n - 1)

(***************************************************************************)
(* modulator.attach_ms(0.025, modulate), line 188.  Ticker::attach_ms      *)
(* takes a whole number of milliseconds: the argument 0.025, here in       *)
(* microseconds, is converted to an integer on the call.                   *)
(***************************************************************************)
attachArgUs == 25
attachMs == attachArgUs \div 1000
timerPeriodUs == attachMs * 1000

(***************************************************************************)
(* unsigned long is 32 bits wide.  A value is kept as two 16-bit halves,   *)
(* [hi, lo], and the arithmetic below is arithmetic modulo 2^32.           *)
(***************************************************************************)
Half == 2^16

U32(n) == [hi |-> (n \div Half) % Half, lo |-> n % Half]

\* t + d modulo 2^32, for 0 <= d < 2^16
Add32(t, d) ==
  [hi |-> (t.hi + ((t.lo + d) \div Half)) % Half, lo |-> (t.lo + d) % Half]

\* a - b modulo 2^32
Sub32(a, b) ==
  [hi |-> (a.hi - b.hi - (IF a.lo < b.lo THEN 1 ELSE 0) + 2 * Half) % Half,
   lo |-> (a.lo - b.lo + Half) % Half]

\* x > n, for 0 <= n < 2^16
Gt32(x, n) == x.hi > 0 \/ x.lo > n

\* faulty variant: a difference that does not wrap, 0 when millis() is behind
ElapsedNoWrap(t, since) ==
  IF t.hi > since.hi \/ (t.hi = since.hi /\ t.lo >= since.lo)
    THEN Sub32(t, since)
    ELSE U32(0)

\* millis() - lastTriggerTime in unsigned 32-bit arithmetic
Elapsed(t, since) == Sub32(t, since)

(***************************************************************************)
(* The value the else branch of modulate() computes (lines 252-275).       *)
(***************************************************************************)
\* faulty variant: silence whenever no file plays
FallbackSilent(c, phase, adc) == 0

\* faulty variant: the live input wins over the test modes
FallbackLiveFirst(c, phase, adc) ==
  IF c.live THEN adc \div adcDivisor
  ELSE IF c.dc THEN dcLevel
  ELSE IF c.sine THEN SineSample(phase)
  ELSE 0

Fallback(c, phase, adc) ==
  IF c.dc THEN dcLevel
  ELSE IF c.sine THEN SineSample(phase)
  ELSE IF c.live THEN adc \div adcDivisor
  ELSE 0

FallbackPhase(c, phase) ==
  IF ~c.dc /\ c.sine THEN NextPhase(phase) ELSE phase

(***************************************************************************)
(* File API                                                                *)
(***************************************************************************)
\* faulty variant: the last byte is not reported as available
AvailableShort(f) == IF f.open THEN Len(spiffs.data) - f.pos - 1 ELSE 0

\* audioFile.available(): the bytes from the position to the end
Available(f) == IF f.open THEN Len(spiffs.data) - f.pos ELSE 0

\* faulty variant: the read does not follow the stream position
ReadByteFirst(f) == spiffs.data[1]

ReadByte(f) == spiffs.data[f.pos + 1]
ClosedFile == [open |-> FALSE, pos |-> 0]
OpenedFile == [open |-> TRUE, pos |-> 0]
Exists == spiffs.mounted /\ spiffs.exists

(***************************************************************************)
(* Power-on state: the initialisers of the globals (lines 88-104).         *)
(***************************************************************************)
InitWith(configs, files, present) ==
  /\ cfg \in configs
  /\ spiffs \in [mounted : {FALSE}, exists : present, data : files]
  /\ pc = "setup"
  /\ timerOn = FALSE
  /\ pin = FALSE
  /\ reading = FALSE
  /\ lastTriggerState = FALSE
  /\ triggerState = FALSE
  /\ lastTriggerTime = U32(0)
  /\ now = U32(0)
  /\ clock = 0
  /\ isPlaying = FALSE
  /\ audioFile = ClosedFile
  /\ sinePhase = 0
  /\ pwm = 0
  /\ led = "off"
  /\ out = << >>
  /\ nFinished = 0
  /\ lastStart = "none"
  /\ sessions = 0
  /\ swallowed = FALSE
  /\ burst = [base |-> FALSE, start |-> 0, narrow |-> TRUE, toggles |-> 0, flips |-> 0]

(***************************************************************************)
(* setup(), lines 113-223.  A failed mount returns before the pins, the    *)
(* PWM and the timer are set up.  startMillis is millis() at the first     *)
(* pass of loop().                                                         *)
(***************************************************************************)
Setup(mountOk, startMillis) ==
  /\ pc = "setup"
  /\ spiffs' = [spiffs EXCEPT !.mounted = mountOk]
  /\ now' = startMillis
  /\ IF mountOk
       THEN /\ pwm' = (IF cfg.dc THEN dcLevel ELSE 0)
            /\ led' = (IF cfg.led THEN "ready" ELSE led)
            /\ timerOn' = TRUE
       ELSE UNCHANGED <<pwm, led, timerOn>>
  /\ pc' = "ct_read"
  /\ UNCHANGED <<cfg, triggerVars, clock, playVars, sinePhase, out, nFinished, ghostVars>>

(***************************************************************************)
(* modulate(), lines 234-278: one invocation of the callback.              *)
(***************************************************************************)
\* faulty variant: the end-of-file branch closes the file and leaves the flag set
ModulateEofStuck ==
  /\ audioFile' = ClosedFile
  /\ nFinished' = nFinished + 1
  /\ pwm' = 0
  /\ out' = Append(out, 0)
  /\ led' = (IF cfg.led THEN "ready" ELSE led)
  /\ UNCHANGED <<isPlaying, sinePhase>>

\* faulty variant: the end-of-file branch neither closes the file nor clears the flag
ModulateEofNoClear ==
  /\ nFinished' = nFinished + 1
  /\ pwm' = 0
  /\ out' = Append(out, 0)
  /\ led' = (IF cfg.led THEN "ready" ELSE led)
  /\ UNCHANGED <<audioFile, isPlaying, sinePhase>>

\* lines 243-250
ModulateEof ==
  /\ audioFile' = ClosedFile
  /\ isPlaying' = FALSE
  /\ led' = (IF cfg.led THEN "ready" ELSE led)
  /\ nFinished' = nFinished + 1
  /\ pwm' = 0
  /\ out' = Append(out, 0)
  /\ UNCHANGED sinePhase

\* faulty variant: the tone phase keeps running under the file
ModulateReadAdvances ==
  /\ pwm' = ReadByte(audioFile)
  /\ audioFile' = [audioFile EXCEPT !.pos = @ + 1]
  /\ out' = Append(out, ReadByte(audioFile))
  /\ sinePhase' = FallbackPhase(cfg, sinePhase)
  /\ UNCHANGED <<isPlaying, led, nFinished>>

\* line 241
ModulateRead ==
  /\ pwm' = ReadByte(audioFile)
  /\ audioFile' = [audioFile EXCEPT !.pos = @ + 1]
  /\ out' = Append(out, ReadByte(audioFile))
  /\ UNCHANGED <<isPlaying, led, nFinished, sinePhase>>

\* File::read() returns -1 when it cannot deliver a byte
ReadError == 0 - 1

\* failed reads since the session started
Faults == Cardinality({i \in 1..Len(out) : out[i] = ReadError})

\* line 241 when read() fails: the return value is assigned to audio and
\* written at line 277; the stream is neither moved nor closed
ModulateReadFails ==
  /\ pwm' = ReadError
  /\ out' = Append(out, ReadError)
  /\ UNCHANGED <<isPlaying, audioFile, led, nFinished, sinePhase>>

\* lines 252-275
ModulateIdle(adc) ==
  /\ pwm' = Fallback(cfg, sinePhase, adc)
  /\ sinePhase' = FallbackPhase(cfg, sinePhase)
  /\ UNCHANGED <<isPlaying, audioFile, led, nFinished, out>>

\* faulty variant: a test mode takes priority over the file
FileBranchAfterTest == isPlaying /\ audioFile.open /\ ~(cfg.dc \/ cfg.sine)

\* line 238
FileBranch == isPlaying /\ audioFile.open

Modulate(adc) ==
  /\ timerOn
  /\ IF FileBranch
       THEN IF Available(audioFile) > 0 THEN ModulateRead ELSE ModulateEof
       ELSE ModulateIdle(adc)
  /\ UNCHANGED <<constVars, pc, timerOn, triggerVars, timeVars, ghostVars>>

\* an invocation whose read fails although bytes were reported available
ModulateFault ==
  /\ timerOn
  /\ FileBranch
  /\ Available(audioFile) > 0
  /\ Faults < MaxFaults
  /\ ModulateReadFails
  /\ UNCHANGED <<constVars, pc, timerOn, triggerVars, timeVars, ghostVars>>

(***************************************************************************)
(* The trigger line: the environment changes the raw level at any time.    *)
(* The debouncer agrees with the line when the confirmed level, the last   *)
(* sampled level and a sample in flight all equal the raw level; a toggle  *)
(* in such a state opens a new burst.                                      *)
(***************************************************************************)
MidPoll == pc \notin {"setup", "ct_read", "delay"}

Settled ==
  /\ pin = triggerState
  /\ lastTriggerState = triggerState
  /\ MidPoll => reading = triggerState

PinChange ==
  /\ pc # "setup"
  /\ pin' = ~pin
  /\ burst' = IF Settled
                THEN [base |-> pin, start |-> clock, narrow |-> TRUE,
                      toggles |-> 1, flips |-> 0]
                ELSE [burst EXCEPT !.narrow = @ /\ clock - burst.start <= debounceDelay,
                                   !.toggles = IF @ < 2 THEN @ + 1 ELSE @]
  /\ UNCHANGED <<constVars, pc, timerOn, reading, lastTriggerState, triggerState,
                 lastTriggerTime, timeVars, playVars, outVars, led, lastStart,
                 sessions, swallowed>>

(***************************************************************************)
(* checkTrigger(), lines 284-305.  Both reads of millis() in one call see  *)
(* the same millisecond: the call takes microseconds.                      *)
(***************************************************************************)
\* faulty variant: the debounce timer is not restarted on a raw change
CheckTriggerReadNoReset ==
  /\ pc = "ct_read"
  /\ reading' = pin
  /\ pc' = "ct_confirm"
  /\ UNCHANGED <<constVars, timerOn, pin, lastTriggerState, triggerState, lastTriggerTime,
                 timeVars, playVars, outVars, led, ghostVars>>

\* lines 286-291: sample the pin, restart the debounce timer on a change
CheckTriggerRead ==
  /\ pc = "ct_read"
  /\ reading' = pin
  /\ lastTriggerTime' = (IF pin # lastTriggerState THEN now ELSE lastTriggerTime)
  /\ pc' = "ct_confirm"
  /\ UNCHANGED <<constVars, timerOn, pin, lastTriggerState, triggerState, timeVars,
                 playVars, outVars, led, ghostVars>>

\* line 293
Stable == Gt32(Elapsed(now, lastTriggerTime), debounceDelay)

\* faulty variant: level-triggered, a stable high level counts again at every poll
ConfirmedLevel == Stable /\ (reading # triggerState \/ reading)

\* lines 293-294
Confirmed == Stable /\ reading # triggerState

\* faulty variant: the start is not guarded by the playback flag
StartConditionUnguarded == reading

\* line 298
StartCondition == reading /\ ~isPlaying

\* lines 293-304; a call of startPlayback continues at sp_exists
CheckTriggerConfirm ==
  /\ pc = "ct_confirm"
  /\ triggerState' = (IF Confirmed THEN reading ELSE triggerState)
  /\ IF Confirmed /\ StartCondition
       THEN /\ pc' = "sp_exists"
            /\ UNCHANGED lastTriggerState
       ELSE /\ pc' = "delay"
            /\ lastTriggerState' = reading
  /\ swallowed' = IF Confirmed THEN reading /\ isPlaying ELSE swallowed
  /\ burst' = IF Confirmed
                THEN [burst EXCEPT !.flips = IF @ < 2 THEN @ + 1 ELSE @]
                ELSE burst
  /\ UNCHANGED <<constVars, timerOn, pin, reading, lastTriggerTime, timeVars,
                 playVars, outVars, led, lastStart, sessions>>

\* line 304, after startPlayback has returned
CheckTriggerLast ==
  /\ pc = "ct_last"
  /\ lastTriggerState' = reading
  /\ pc' = "delay"
  /\ UNCHANGED <<constVars, timerOn, pin, reading, triggerState, lastTriggerTime,
                 timeVars, playVars, outVars, led, ghostVars>>

(***************************************************************************)
(* startPlayback(), lines 307-334.                                         *)
(***************************************************************************)
\* line 308, and the else branch of lines 331-333
StartExists ==
  /\ pc = "sp_exists"
  /\ IF Exists
       THEN /\ pc' = "sp_open"
            /\ UNCHANGED lastStart
       ELSE /\ pc' = "ct_last"
            /\ lastStart' = "notfound"
  /\ UNCHANGED <<constVars, timerOn, triggerVars, timeVars, playVars, outVars, led,
                 sessions, swallowed, burst>>

\* faulty variant: the flag is set before the handle is tested
StartOpenFlagFirst(openOk) ==
  /\ pc = "sp_open"
  /\ isPlaying' = TRUE
  /\ IF openOk
       THEN /\ audioFile' = OpenedFile
            /\ pc' = "sp_play"
            /\ UNCHANGED lastStart
       ELSE /\ audioFile' = ClosedFile
            /\ pc' = "ct_last"
            /\ lastStart' = "openfailed"
  /\ UNCHANGED <<constVars, timerOn, triggerVars, timeVars, outVars, led,
                 sessions, swallowed, burst>>

\* lines 309-310 and 328-330: audioFile = SPIFFS.open(...); if (audioFile)
StartOpen(openOk) ==
  /\ pc = "sp_open"
  /\ IF openOk
       THEN /\ audioFile' = OpenedFile
            /\ pc' = "sp_play"
            /\ UNCHANGED lastStart
       ELSE /\ audioFile' = ClosedFile
            /\ pc' = "ct_last"
            /\ lastStart' = "openfailed"
  /\ UNCHANGED <<constVars, timerOn, triggerVars, timeVars, isPlaying, outVars, led,
                 sessions, swallowed, burst>>

\* line 311
StartPlay ==
  /\ pc = "sp_play"
  /\ isPlaying' = TRUE
  /\ out' = << >>
  /\ nFinished' = 0
  /\ lastStart' = "ok"
  /\ sessions' = (IF sessions < MaxSessions THEN sessions + 1 ELSE sessions)
  /\ pc' = (IF cfg.led THEN "sp_led" ELSE "sp_size")
  /\ UNCHANGED <<constVars, timerOn, triggerVars, timeVars, audioFile, sinePhase, pwm,
                 led, swallowed, burst>>

\* line 313
StartLed ==
  /\ pc = "sp_led"
  /\ led' = "playing"
  /\ pc' = "sp_size"
  /\ UNCHANGED <<constVars, timerOn, triggerVars, timeVars, playVars, outVars, ghostVars>>

\* lines 317-327: the size query and the duration log
StartSize ==
  /\ pc = "sp_size"
  /\ pc' = "ct_last"
  /\ UNCHANGED <<constVars, timerOn, triggerVars, timeVars, playVars, outVars, led,
                 ghostVars>>

(***************************************************************************)
(* loop(), lines 225-228: vTaskDelay, then the next poll d milliseconds    *)
(* after this one.  The model polls for limit milliseconds.                *)
(***************************************************************************)
Delay(d, limit) ==
  /\ pc = "delay"
  /\ clock + d <= limit
  /\ clock' = clock + d
  /\ now' = Add32(now, d)
  /\ pc' = "ct_read"
  /\ UNCHANGED <<constVars, timerOn, triggerVars, playVars, outVars, led, ghostVars>>

(***************************************************************************)
(* A caller that invokes startPlayback() directly at the top of a pass of  *)
(* the main loop, whatever the playback state: the function taken as an    *)
(* operation of its own, as a test of it would call it.                    *)
(***************************************************************************)
DirectStart ==
  /\ pc = "ct_read"
  /\ pc' = "sp_exists"
  /\ UNCHANGED <<constVars, timerOn, triggerVars, timeVars, playVars, outVars, led,
                 ghostVars>>

Program(gaps, limit) ==
  \/ \E m \in BOOLEAN : Setup(m, U32(0))
  \/ \E a \in AdcInputs : Modulate(a)
  \/ PinChange
  \/ CheckTriggerRead
  \/ CheckTriggerConfirm
  \/ CheckTriggerLast
  \/ StartExists
  \/ \E ok \in BOOLEAN : StartOpen(ok)
  \/ StartPlay
  \/ StartLed
  \/ StartSize
  \/ \E d \in gaps : Delay(d, limit)

\* The trigger path in detail: 10 ms and slow polls, the playback-only build
\* without and with the status LED, the file present.
Init == InitWith({PlaybackOnly, LedBuild}, {ExampleFile}, {TRUE})
Next == Program(PollGaps, MaxClock)
Spec == Init /\ [][Next]_vars

\* Every audio file up to MaxLen bytes, the builds without a free-running source.
InitFiles == InitWith(PlainConfigs, Files, BOOLEAN)
NextFiles == Program(SlowGaps, MaxPlayClock)
SpecFiles == InitFiles /\ [][NextFiles]_vars

\* Every choice of the fallback source, the file present or missing.
InitSources == InitWith(SourceConfigs \cup {LedBuild}, {ExampleFile}, BOOLEAN)
NextSources == Program(SlowGaps, MaxPlayClock)
SpecSources == InitSources /\ [][NextSources]_vars

\* startPlayback() called directly.
InitApi == InitWith({PlaybackOnly, LedBuild}, {ExampleFile}, {TRUE})
NextApi == Program(SlowGaps, MaxPlayClock) \/ DirectStart
SpecApi == InitApi /\ [][NextApi]_vars

\* Reads of the stream may fail.
InitFaults == InitWith({PlaybackOnly, LedBuild}, {ExampleFile}, {TRUE})
NextFaults == Program(SlowGaps, MaxPlayClock) \/ ModulateFault
SpecFaults == InitFaults /\ [][NextFaults]_vars

\* The timer keeps firing: an invocation of the callback that is due is
\* eventually made (the Ticker is periodic and is never detached).
InitLive == InitWith({PlaybackOnly, LedBuild}, Files, {TRUE})
NextLive == Program(SlowGaps, MaxLiveClock)
SpecLive ==
  InitLive /\ [][NextLive]_vars /\ WF_vars(\E a \in AdcInputs : Modulate(a))

\* millis() is WrapLead milliseconds short of 2^32 at the first poll, so it
\* wraps around while the trigger is being polled.
WrapStart == [hi |-> Half - 1, lo |-> Half - WrapLead]

InitWrap == InitWith({PlaybackOnly, LedBuild}, {ExampleFile}, {TRUE})
NextWrap ==
  \/ \E m \in BOOLEAN : Setup(m, WrapStart)
  \/ \E a \in AdcInputs : Modulate(a)
  \/ PinChange
  \/ CheckTriggerRead
  \/ CheckTriggerConfirm
  \/ CheckTriggerLast
  \/ StartExists
  \/ \E ok \in BOOLEAN : StartOpen(ok)
  \/ StartPlay
  \/ StartLed
  \/ StartSize
  \/ \E d \in PollGaps : Delay(d, MaxClock)
SpecWrap == InitWrap /\ [][NextWrap]_vars

(***************************************************************************)
(* Properties                                                              *)
(***************************************************************************)
\* one invocation of the callback
ModStep == \E a \in AdcInputs : Modulate(a)

\* the bytes of the file delivered so far
Played == SubSeq(spiffs.data, 1, audioFile.pos)

\* the last start succeeded and its session has ended
SessionOver == ~isPlaying /\ lastStart = "ok" /\ pc # "sp_play"

\* the sample the stream holds at its position, 0 at the end
FileValue ==
  IF audioFile.pos < Len(spiffs.data) THEN spiffs.data[audioFile.pos + 1] ELSE 0

StartFailed == lastStart \in {"notfound", "openfailed"}

TestMode == cfg.dc \/ cfg.sine

TestSignal == IF cfg.dc THEN dcLevel ELSE SineSample(sinePhase)

RisingEdge == ~triggerState /\ triggerState'

\* the phase the tone had one invocation ago
PrevPhase == (sinePhase + sineTableSize - phaseStep) % sineTableSize

(***************************************************************************)
(* C1: for every file B, a session writes the bytes of B in order, one per *)
(* callback invocation, to the PWM register; the invocation after the last *)
(* byte closes the file, clears isPlaying and writes 0, once; and while no *)
(* session is active the callback neither reads nor moves the stream.      *)
(***************************************************************************)
C1_PlaysTheFileInOrder ==
  /\ [](isPlaying => audioFile.open /\ out = Played)
  /\ [](SessionOver =>
          out = Append(spiffs.data, 0) /\ ~audioFile.open /\ nFinished = 1)
  /\ [][ModStep /\ isPlaying =>
          /\ Len(out') = Len(out) + 1
          /\ pwm' = out'[Len(out')]]_vars
  /\ [][ModStep /\ ~isPlaying => UNCHANGED <<audioFile, out, nFinished>>]_vars

C1_Witness ==
  /\ SessionOver
  /\ Len(spiffs.data) >= 2
  /\ spiffs.data[1] # spiffs.data[2]
  /\ out = Append(spiffs.data, 0)
  /\ pwm = 0

(***************************************************************************)
(* C2: a handle is opened only when no session is active and no handle is  *)
(* open, so at most one session exists; and a poll that confirms a rising  *)
(* edge while isPlaying is true leaves isPlaying, the handle and its       *)
(* position as they were and does not call startPlayback.                  *)
(***************************************************************************)
C2_TriggerDuringSessionIsNoOp ==
  /\ [][(\E ok \in BOOLEAN : StartOpen(ok)) => ~isPlaying /\ ~audioFile.open]_vars
  /\ [][CheckTriggerConfirm /\ RisingEdge /\ isPlaying =>
          /\ UNCHANGED <<isPlaying, audioFile, out>>
          /\ pc' = "delay"]_vars
  /\ [](pc \in {"sp_exists", "sp_open", "sp_play"} => ~isPlaying)

C2_Witness ==
  /\ swallowed
  /\ isPlaying
  /\ audioFile.pos = 1
  /\ sessions = 1
  /\ pc = "delay"

(***************************************************************************)
(* C3: in every build of the fallback source, a callback invocation that   *)
(* finds isPlaying true writes the next byte of the file, or 0 at the end  *)
(* of the file, and leaves the tone phase alone.                           *)
(***************************************************************************)
C3_FileHasPriority ==
  [][ModStep /\ isPlaying => pwm' = FileValue /\ sinePhase' = sinePhase]_vars

C3_Witness ==
  /\ cfg.sine /\ ~cfg.dc
  /\ sinePhase > 0
  /\ isPlaying
  /\ audioFile.pos = 1
  /\ pwm = spiffs.data[1]
  /\ pwm # SineSample(sinePhase)

(***************************************************************************)
(* C4: from a state in which the debouncer agrees with the line, raw       *)
(* toggles that all fall within debounceDelay of the first and end at the  *)
(* level before them change triggerState zero times; a single raw change   *)
(* that stays changes it at most once, and exactly once by the poll that   *)
(* completes more than debounceDelay + MaxGap after the change.            *)
(***************************************************************************)
BurstOver == burst.toggles >= 1 /\ burst.narrow /\ pin = burst.base

C5_OneStartPerEdge ==
  /\ [][pc' = "sp_exists" /\ pc # "sp_exists" =>
          pc = "ct_confirm" /\ RisingEdge /\ ~isPlaying]_vars
  /\ [][RisingEdge => (pc' = "sp_exists" <=> ~isPlaying)]_vars
  /\ [](swallowed => triggerState)
  /\ [][swallowed /\ swallowed' => pc' \notin {"sp_exists", "sp_open", "sp_play"}]_vars

\* the session has ended with the input still asserted, and a poll finds a
\* stable high level and no session
C5_Witness ==
  /\ swallowed
  /\ ~isPlaying
  /\ nFinished = 1
  /\ pin
  /\ reading
  /\ lastTriggerState
  /\ pc = "ct_confirm"
  /\ Stable

(***************************************************************************)
(* C6: once a session has ended the flag is clear and the handle closed;   *)
(* the next confirmed rising edge calls startPlayback, and the session it  *)
(* starts holds a fresh handle at position 0 and delivers the file from    *)
(* its first byte.                                                         *)
(***************************************************************************)
C6_SecondSessionFromStart ==
  /\ [](nFinished >= 1 => ~isPlaying /\ (audioFile.open => pc = "sp_play"))
  /\ [][RisingEdge /\ nFinished >= 1 => pc' = "sp_exists"]_vars
  /\ [][StartPlay => isPlaying' /\ audioFile'.open /\ audioFile'.pos = 0]_vars
  /\ [](sessions >= 2 /\ isPlaying => out = Played)

C6_Witness ==
  /\ sessions = 2
  /\ isPlaying
  /\ audioFile.pos = 1
  /\ out = <<spiffs.data[1]>>

(***************************************************************************)
(* C7: a start that finds the file missing or cannot open it records the   *)
(* failure and changes neither isPlaying, the PWM value, the tone phase    *)
(* nor the LED; isPlaying stays false, and every callback invocation       *)
(* until the next successful start writes the configured fallback source.  *)
(***************************************************************************)
StartFailStep == pc \in {"sp_exists", "sp_open"} /\ pc' = "ct_last"

C7_FailedStartChangesNothing ==
  /\ [][StartFailStep =>
          /\ StartFailed'
          /\ ~isPlaying'
          /\ UNCHANGED <<isPlaying, pwm, sinePhase, led, out>>]_vars
  /\ [](StartFailed => ~isPlaying)
  /\ [][ModStep /\ StartFailed =>
          /\ \E a \in AdcInputs : pwm' = Fallback(cfg, sinePhase, a)
          /\ sinePhase' = FallbackPhase(cfg, sinePhase)
          /\ UNCHANGED <<isPlaying, audioFile>>]_vars

C7_Witness ==
  /\ lastStart = "openfailed"
  /\ cfg.sine /\ ~cfg.dc
  /\ sinePhase > 0
  /\ pwm = SineSample(PrevPhase)
  /\ pc = "delay"
  /\ ~isPlaying

(***************************************************************************)
(* C8 as stated: a step of startPlayback taken while a session is active   *)
(* changes neither isPlaying nor the handle and its position.              *)
(***************************************************************************)
StartStep ==
  \/ StartExists
  \/ \E ok \in BOOLEAN : StartOpen(ok)
  \/ StartPlay
  \/ StartLed
  \/ StartSize

C8_StartIsIdempotent ==
  [][StartStep /\ isPlaying => UNCHANGED <<isPlaying, audioFile>>]_vars

(***************************************************************************)
(* C8 amended: startPlayback has no guard of its own.  Called while a      *)
(* session is active it opens the resource again: isPlaying stays true and *)
(* the handle is replaced by a fresh one at position 0 (or by an invalid   *)
(* one when the open fails).  The guard is in checkTrigger, which never    *)
(* calls startPlayback while isPlaying is true.                            *)
(***************************************************************************)
C8_StartReopensGuardIsInCaller ==
  /\ [][StartOpen(TRUE) /\ isPlaying => isPlaying' /\ audioFile' = OpenedFile]_vars
  /\ [][StartOpen(FALSE) /\ isPlaying => isPlaying' /\ audioFile' = ClosedFile]_vars
  /\ [][CheckTriggerConfirm /\ pc' = "sp_exists" => ~isPlaying]_vars

C8_Witness ==
  /\ pc = "sp_play"
  /\ isPlaying
  /\ audioFile = OpenedFile
  /\ Len(out) = 1

(***************************************************************************)
(* C9 as stated: the invocation that reaches the end of the file writes 0, *)
(* every later invocation writes 0 until a new session starts, and the     *)
(* finished message is printed once per session.                           *)
(***************************************************************************)
C9_SilenceUntilNextSession ==
  /\ [](nFinished <= 1)
  /\ [][ModStep /\ isPlaying /\ audioFile.pos = Len(spiffs.data) => pwm' = 0]_vars
  /\ [][ModStep /\ ~isPlaying /\ nFinished >= 1 => pwm' = 0]_vars

(***************************************************************************)
(* C9 amended: the invocation that reaches the end of the file writes 0    *)
(* and ends the session; the invocations after it write the configured     *)
(* fallback source, which is 0 only in a build with neither a test mode    *)
(* nor live input; the finished message is printed once per session.       *)
(***************************************************************************)
C9_SilenceAtDoneThenFallback ==
  /\ [](nFinished <= 1)
  /\ [](SessionOver => nFinished = 1)
  /\ [][ModStep /\ isPlaying /\ audioFile.pos = Len(spiffs.data) =>
          pwm' = 0 /\ ~isPlaying' /\ nFinished' = 1]_vars
  /\ [][ModStep /\ ~isPlaying /\ nFinished >= 1 =>
          /\ \E a \in AdcInputs : pwm' = Fallback(cfg, sinePhase, a)
          /\ ~(cfg.dc \/ cfg.sine \/ cfg.live) => pwm' = 0
          /\ nFinished' = nFinished]_vars

C9_Witness ==
  /\ nFinished = 1
  /\ ~isPlaying
  /\ cfg.dc
  /\ pwm = dcLevel
  /\ out = Append(spiffs.data, 0)

(***************************************************************************)
(* C10: in a build with a test mode, a session delivers the file and not   *)
(* the test signal, and every callback invocation after the one that       *)
(* ended the session writes the test signal again.                         *)
(***************************************************************************)
C10_TestModeResumes ==
  /\ [][ModStep /\ TestMode /\ isPlaying => pwm' = FileValue]_vars
  /\ [][ModStep /\ TestMode /\ ~isPlaying /\ nFinished >= 1 => pwm' = TestSignal]_vars

C10_Witness ==
  /\ cfg.sine /\ ~cfg.dc
  /\ nFinished = 1
  /\ ~isPlaying
  /\ out = Append(spiffs.data, 0)
  /\ pwm # 0
  /\ pwm = SineSample(PrevPhase)

(***************************************************************************)
(* C11: no invocation of the modulation callback prints a message; the     *)
(* playback-finished message is printed by a step of the main loop.        *)
(***************************************************************************)
C11_CallbackNeverLogs ==
  [][ModStep => nFinished' = nFinished]_vars

(***************************************************************************)
(* C12: an invocation whose read of the open stream fails writes 0 to the  *)
(* PWM register and ends the session (flag clear, handle closed); the      *)
(* error value is never written and the read is not tried again.           *)
(***************************************************************************)
C12_ReadFailureIsDone ==
  /\ [][ModulateFault => pwm' = 0 /\ ~isPlaying' /\ ~audioFile'.open]_vars
  /\ [](pwm # ReadError)
  /\ [][ModStep /\ Faults >= 1 => UNCHANGED audioFile]_vars

(***************************************************************************)
(* C13: after a setup in which the storage failed to mount, the PWM output *)
(* is configured and the modulation callback is running.                   *)
(***************************************************************************)
C13_EngineRunsWithoutStorage ==
  /\ pc # "setup" /\ ~spiffs.mounted => timerOn
  /\ pc # "setup" /\ ~spiffs.mounted /\ cfg.dc => pwm = dcLevel

(***************************************************************************)
(* C14: in every interleaving, the handle of a session goes from open to   *)
(* closed only in a callback invocation of that session that has not       *)
(* closed it before; by the end of the session it has been closed exactly  *)
(* once; and an invocation that finds the handle closed neither reads nor  *)
(* closes it.                                                              *)
(***************************************************************************)
C14_ClosedExactlyOnce ==
  /\ [](nFinished <= 1)
  /\ [](SessionOver => ~audioFile.open /\ nFinished = 1)
  /\ [][audioFile.open /\ ~audioFile'.open =>
          ModStep /\ isPlaying /\ nFinished = 0 /\ nFinished' = 1]_vars
  /\ [][ModStep /\ ~audioFile.open => UNCHANGED <<audioFile, out, nFinished>>]_vars

\* the callback has closed an empty file while startPlayback is still running,
\* and has run again since
C14_Witness ==
  /\ pc = "sp_size"
  /\ Len(spiffs.data) = 0
  /\ nFinished = 1
  /\ ~audioFile.open
  /\ ~isPlaying
  /\ cfg.dc
  /\ pwm = dcLevel

(***************************************************************************)
(* C15: in a build with the status LED, whenever the main loop is between  *)
(* two polls the LED is at the playing level exactly when isPlaying is     *)
(* true and at the ready level exactly when it is false.                   *)
(***************************************************************************)
C15_LedFollowsPlayback ==
  (cfg.led /\ spiffs.mounted /\ pc \in {"delay", "ct_read"}) =>
    /\ led = "playing" <=> isPlaying
    /\ led = "ready" <=> ~isPlaying

(***************************************************************************)
(* C16: every value written to the PWM duty register lies in 0..255.       *)
(***************************************************************************)
C16_DutyIsEightBit ==
  pwm \in 0..255

(***************************************************************************)
(* C17: while the tone is emitted the phase advances by 2.5 table steps    *)
(* per invocation, modulo the table size, so that 40 invocations complete  *)
(* one cycle of the tone and the waveform repeats after 200.               *)
(***************************************************************************)
ToneStep == ModStep /\ cfg.sine /\ ~cfg.dc /\ ~isPlaying

C17_TonePhaseAdvance ==
  /\ [][ToneStep => 2 * sinePhase' = (2 * sinePhase + 5) % (2 * sineTableSize)]_vars
  /\ [][ToneStep => Advance(sinePhase', 39) = sinePhase]_vars
  /\ [][ToneStep => Advance(sinePhase', 199) = sinePhase]_vars

(***************************************************************************)
(* C18: the timer that runs the modulation callback is started with a      *)
(* period of 25 microseconds, 40,000 invocations per second.               *)
(***************************************************************************)
C18_PeriodIs25us ==
  timerOn => timerPeriodUs = 25 /\ timerPeriodUs * carrierRate = 1000000

(***************************************************************************)
(* C19: startPlayback is entered only while isPlaying is false, and        *)
(* isPlaying is still false at each of its steps up to the one that sets   *)
(* it; a callback invocation moves or closes the file only when it found   *)
(* isPlaying true; and no callback invocation sets isPlaying.              *)
(***************************************************************************)
C19_StartInactiveAdvanceActive ==
  /\ [][pc' = "sp_exists" /\ pc # "sp_exists" => ~isPlaying]_vars
  /\ [](pc \in {"sp_exists", "sp_open", "sp_play"} => ~isPlaying)
  /\ [][ModStep /\ audioFile' # audioFile => isPlaying]_vars
  /\ [][ModStep /\ isPlaying' => isPlaying]_vars

\* a second start, after the callback has ended the first session
C19_Witness ==
  /\ pc = "sp_play"
  /\ audioFile = OpenedFile
  /\ ~isPlaying
  /\ sessions = 1
  /\ nFinished = 1
  /\ out = Append(spiffs.data, 0)

(***************************************************************************)
(* C20: isPlaying goes from true to false only in a callback invocation    *)
(* that finds the stream at its end; a toggle of the trigger line or a     *)
(* step of the main loop taken during a session leaves isPlaying, the      *)
(* handle and its position as they were.                                   *)
(***************************************************************************)
C20_EndsOnlyByExhaustion ==
  /\ [][isPlaying /\ ~isPlaying' =>
          ModStep /\ audioFile.open /\ audioFile.pos = Len(spiffs.data)]_vars
  /\ [][isPlaying /\ (pc' # pc \/ pin' # pin) => UNCHANGED <<isPlaying, audioFile>>]_vars

\* the release of the trigger has been confirmed in the middle of a session
C20_Witness ==
  /\ isPlaying
  /\ audioFile.pos = 1
  /\ sessions = 1
  /\ ~pin
  /\ ~triggerState
  /\ burst.flips = 1
  /\ pc = "delay"

(***************************************************************************)
(* C21 as stated: every change of the raw level restarts the debounce      *)
(* timer, also one that was undone before the next poll: once a poll has   *)
(* sampled the line after the first toggle of a burst, the timer has been  *)
(* restarted at or after that toggle; and triggerState changes only at a   *)
(* poll that finds the timer expired and a level other than triggerState.  *)
(***************************************************************************)
PolledSince(t) == pc \in {"ct_confirm", "delay"} /\ clock > t

Flip == triggerState' # triggerState

C21_EveryRawChangeRestartsTimer ==
  /\ [](burst.toggles >= 1 /\ PolledSince(burst.start) =>
          ~Gt32(Elapsed(now, lastTriggerTime), clock - burst.start))
  /\ [][Flip => CheckTriggerConfirm /\ Stable /\ reading # triggerState]_vars

(***************************************************************************)
(* C21 amended: the timer is restarted at a poll whose sample differs from *)
(* the sample of the poll before, and only then; a raw level that changed  *)
(* and changed back between two polls is not seen and restarts nothing.    *)
(* triggerState changes only at a poll that finds the timer expired, hence *)
(* the same sample as at the poll before, and a sample other than          *)
(* triggerState, which it takes.                                           *)
(***************************************************************************)
C21_SampledChangeRestartsTimer ==
  /\ [][CheckTriggerRead /\ pin # lastTriggerState => lastTriggerTime' = now]_vars
  /\ [][CheckTriggerRead /\ pin = lastTriggerState => UNCHANGED lastTriggerTime]_vars
  /\ [][lastTriggerTime' # lastTriggerTime => CheckTriggerRead]_vars
  /\ [](pc = "ct_confirm" /\ Stable => reading = lastTriggerState)
  /\ [][Flip => CheckTriggerConfirm /\ Stable /\ reading # triggerState
                  /\ triggerState' = reading]_vars

\* the line changed and changed back between two polls, and the poll after
\* it has left the timer where it was
C21_Witness ==
  /\ burst.toggles = 2
  /\ pin = burst.base
  /\ PolledSince(burst.start)
  /\ burst.start > 0
  /\ lastTriggerTime.lo < burst.start
  /\ lastTriggerState = burst.base
  /\ burst.flips = 0

(***************************************************************************)
(* C22: a callback invocation that finds no session active writes the      *)
(* value of exactly one source: the test signal in a build with a test     *)
(* mode, whether or not live input is enabled; the scaled ADC reading in a *)
(* build with live input and no test mode; and 0 in a build with neither.  *)
(***************************************************************************)
IdleStep == ModStep /\ ~isPlaying

C22_OneFallbackByPriority ==
  [][IdleStep =>
       /\ TestMode => pwm' = TestSignal
       /\ ~TestMode /\ cfg.live => \E a \in AdcInputs : pwm' = a \div adcDivisor
       /\ ~TestMode /\ ~cfg.live => pwm' = 0
       /\ UNCHANGED <<isPlaying, audioFile>>]_vars

\* tone and live input both configured: the tone has been written
C22_Witness ==
  /\ cfg.sine /\ cfg.live /\ ~cfg.dc
  /\ ~isPlaying
  /\ sinePhase = 4
  /\ pwm = SineSample(2)
  /\ \A a \in AdcInputs : pwm # a \div adcDivisor

(***************************************************************************)
(* C23: the tone phase is always within 0..sineTableSize-1.                *)
(***************************************************************************)
C23_PhaseInRange ==
  sinePhase \in 0..(sineTableSize - 1)

\* the phase has wrapped
C23_Witness ==
  /\ cfg.sine /\ ~cfg.dc
  /\ sinePhase = 0
  /\ pwm = SineSample(sineTableSize - phaseStep)

(***************************************************************************)
(* C24: the size query that startPlayback makes after it has set           *)
(* isPlaying is made on an open handle: the main loop never uses a handle  *)
(* that the callback has closed.                                           *)
(***************************************************************************)
C24_SizeQueryOnOpenHandle ==
  [][StartSize => audioFile.open]_vars

(***************************************************************************)
(* C25: whenever isPlaying is true the handle is open, so every callback   *)
(* invocation that finds the flag set finds a valid handle: startPlayback  *)
(* sets the flag on a handle it has already assigned and found valid, and  *)
(* the invocation that closes the handle clears the flag.                  *)
(***************************************************************************)
C25_PlayingImpliesOpen ==
  /\ [](isPlaying => audioFile.open)
  /\ [][StartPlay => audioFile.open /\ audioFile' = audioFile /\ isPlaying']_vars
  /\ [][ModStep /\ audioFile.open /\ ~audioFile'.open => isPlaying /\ ~isPlaying']_vars

\* the callback has delivered the first byte while startPlayback is still running
C25_Witness ==
  /\ isPlaying
  /\ pc = "sp_size"
  /\ audioFile.open
  /\ audioFile.pos = 1
  /\ pwm = spiffs.data[1]
  /\ pwm # 0

(***************************************************************************)
(* C26: with a timer that keeps firing, every session ends: isPlaying true *)
(* leads to isPlaying false; and the session has then taken exactly one    *)
(* callback invocation per byte of the file and one more.                  *)
(***************************************************************************)
C26_SessionEnds ==
  /\ isPlaying ~> ~isPlaying
  /\ [](isPlaying => Len(out) <= Len(spiffs.data))
  /\ [](SessionOver => Len(out) = Len(spiffs.data) + 1)

C26_Witness ==
  /\ SessionOver
  /\ Len(spiffs.data) = MaxLen
  /\ Len(out) = MaxLen + 1
  /\ nFinished = 1
  /\ ~audioFile.open

(***************************************************************************)
(* C27: startPlayback is called only at a poll that finds triggerState low *)
(* and sets it high; triggerState is high for the whole call and goes low  *)
(* only at a later poll, so a poll with triggerState low lies between any  *)
(* two calls.  While triggerState stays high nothing is started, and a     *)
(* release shorter than the debounce window followed by a new press leaves *)
(* triggerState high.                                                      *)
(***************************************************************************)
StartCall == pc' = "sp_exists" /\ pc # "sp_exists"

InStart == pc \in {"sp_exists", "sp_open", "sp_play", "sp_led", "sp_size", "ct_last"}

C27_OneStartPerPress ==
  /\ [][StartCall => CheckTriggerConfirm /\ ~triggerState /\ triggerState']_vars
  /\ [](InStart => triggerState)
  /\ [][triggerState /\ ~triggerState' => CheckTriggerConfirm /\ pc' = "delay"]_vars
  /\ [](BurstOver /\ burst.base => triggerState /\ burst.flips = 0)

\* after the session the trigger was released and pressed again within the
\* window; the polls saw it, and a poll now finds a stable asserted level
C27_Witness ==
  /\ sessions = 1
  /\ nFinished = 1
  /\ ~isPlaying
  /\ BurstOver
  /\ burst.base
  /\ burst.toggles = 2
  /\ lastTriggerTime.lo > burst.start
  /\ pc = "ct_confirm"
  /\ Stable
  /\ reading
  /\ triggerState

(***************************************************************************)
(* C28: a start that fails happens with triggerState high and leaves it    *)
(* high; after a failed start no step calls startPlayback while            *)
(* triggerState is high: the next call is at a poll that confirms a new    *)
(* rising edge.                                                            *)
(***************************************************************************)
C28_FailedStartNotRetried ==
  /\ [][StartFailStep => triggerState /\ triggerState']_vars
  /\ [][StartFailed /\ triggerState => ~StartCall]_vars
  /\ [][StartFailed /\ StartCall => CheckTriggerConfirm /\ RisingEdge]_vars

\* the file is missing, the start has failed, the trigger is still asserted
\* and a later poll finds a stable asserted level
C28_Witness ==
  /\ lastStart = "notfound"
  /\ ~isPlaying
  /\ pin
  /\ triggerState
  /\ reading
  /\ lastTriggerState
  /\ pc = "ct_confirm"
  /\ Stable
  /\ burst.toggles = 1
  /\ burst.flips = 1

(***************************************************************************)
(* C29: no step taken while a session is active changes the tone phase;    *)
(* the phase changes only in a callback invocation of the tone build that  *)
(* finds no session active.  The tone therefore resumes at the phase it    *)
(* had when the session started.                                           *)
(***************************************************************************)
C29_PhaseKeptDuringSession ==
  /\ [][isPlaying => sinePhase' = sinePhase]_vars
  /\ [][sinePhase' # sinePhase => ModStep /\ ~isPlaying /\ cfg.sine /\ ~cfg.dc]_vars

\* a session that started at a phase other than 0 has just ended
C29_Witness ==
  /\ cfg.sine /\ ~cfg.dc
  /\ SessionOver
  /\ nFinished = 1
  /\ out = Append(spiffs.data, 0)
  /\ pwm = 0
  /\ sinePhase > 0

(***************************************************************************)
(* C30: with millis() wrapping around during the polling, the difference   *)
(* millis() - lastTriggerTime is the number of milliseconds that have      *)
(* passed since the poll that restarted the timer, before and after the    *)
(* wrap; so a burst of toggles within the window that ends at the old      *)
(* level is never confirmed, and a lasting change has been confirmed by    *)
(* the poll that completes more than debounceDelay + MaxGap after it.      *)
(***************************************************************************)
\* millis() at time t of the model's clock
MillisAt(t) == Add32(WrapStart, t)

Wrapped == now.hi = 0

C30_ElapsedAcrossWrap ==
  /\ pc # "setup" => now = MillisAt(clock)
  /\ lastTriggerTime # U32(0) =>
       \E t \in 0..clock : /\ lastTriggerTime = MillisAt(t)
                            /\ Elapsed(now, lastTriggerTime) = U32(clock - t)
  /\ BurstOver => burst.flips = 0
  /\ (/\ burst.toggles = 1
      /\ pc = "delay"
      /\ clock - burst.start > debounceDelay + MaxGap)
       => burst.flips = 1 /\ triggerState = pin

\* the line changed before the wrap and the change was confirmed after it
C30_Witness ==
  /\ Wrapped
  /\ lastTriggerTime.hi = Half - 1
  /\ burst.toggles = 1
  /\ burst.start > 0
  /\ burst.flips = 1
  /\ triggerState = pin
  /\ pc = "delay"
  /\ Gt32(Elapsed(now, lastTriggerTime), debounceDelay)
  /\ clock - burst.start <= debounceDelay + MaxGap

=============================================================================
